---- MODULE Spec2Model ----
(***************************************************************************)
(* Model of player-scraper.py: the schema normaliser (rename_avgs,         *)
(* clean_avgs, insert_missing, br_rename and the positional slices of      *)
(* get_totals / get_avgs), the eligibility classification done inside      *)
(* get_totals, and the six checkpointed stages of the pipeline.            *)
(*                                                                         *)
(* A column label is a sequence of one-character strings, so that the      *)
(* character operations of rename_avgs (col[0], col[:2]) are computed.     *)
(* A pandas Series is a sequence of [key, val] records.  The value 0.0 is  *)
(* the integer 0; every value read from a source table is > 0 unless the   *)
(* corresponding attempt count is zero.                                    *)
(***************************************************************************)
EXTENDS Integers, Sequences, FiniteSets, TLC

-----------------------------------------------------------------------------
(* Python positional slicing on a sequence.                                *)

\* offset of the sample values, which keeps every source value above 0.0
ValueBase == 100

Min(a, b) == IF a < b THEN a ELSE b
Max(a, b) == IF a > b THEN a ELSE b

\* s[lo:hi] for lo >= 0 and any integer hi (a negative hi counts from the end)
Slice(s, lo, hi) ==
    LET h == IF hi < 0 THEN Max(Len(s) + hi, 0) ELSE Min(hi, Len(s))
        l == Min(lo, Len(s))
    IN  IF h <= l THEN << >> ELSE SubSeq(s, l + 1, h)

\* s[lo:]
SliceFrom(s, lo) == Slice(s, lo, Len(s))

\* s[:hi]
SliceTo(s, hi) == Slice(s, 0, hi)

Keys(series) == [i \in 1..Len(series) |-> series[i].key]

HasKey(series, k) == \E i \in 1..Len(series) : series[i].key = k

\* label -> value of the first entry carrying that label
ValueOf(series, k) ==
    series[CHOOSE i \in 1..Len(series) :
              /\ series[i].key = k
              /\ \A j \in 1..(i - 1) : series[j].key # k].val

RenameKeys(series, f(_)) ==
    [i \in 1..Len(series) |-> [key |-> f(series[i].key), val |-> series[i].val]]

\* Series.add_prefix("PF_")
PF_ == <<"P", "F", "_">>
AddPrefix(series) ==
    [i \in 1..Len(series) |-> [key |-> PF_ \o series[i].key, val |-> series[i].val]]

-----------------------------------------------------------------------------
(* Column labels.                                                          *)

FGpct  == <<"F", "G", "%">>
P3pct  == <<"3", "P", "%">>
P2pct  == <<"2", "P", "%">>
eFGpct == <<"e", "F", "G", "%">>
FTpct  == <<"F", "T", "%">>

\* the dict br_rename: Basketball Reference label -> NBA.com label
br_rename(col) ==
    CASE col = <<"G">>           -> <<"G", "P">>
      [] col = <<"M", "P">>      -> <<"M", "I", "N">>
      [] col = <<"F", "G">>      -> <<"F", "G", "M">>
      [] col = FGpct             -> <<"F", "G", "_", "P", "C", "T">>
      [] col = <<"3", "P">>      -> <<"F", "G", "3", "M">>
      [] col = P3pct             -> <<"F", "G", "3", "_", "P", "C", "T">>
      [] col = <<"3", "P", "A">> -> <<"F", "G", "3", "A">>
      [] col = <<"F", "T">>      -> <<"F", "T", "M">>
      [] col = FTpct             -> <<"F", "T", "_", "P", "C", "T">>
      [] col = <<"O", "R", "B">> -> <<"O", "R", "E", "B">>
      [] col = <<"D", "R", "B">> -> <<"D", "R", "E", "B">>
      [] col = <<"T", "R", "B">> -> <<"R", "E", "B">>
      [] OTHER                   -> col

rename_avgs(col) ==
    LET rename ==
            IF col = <<"P", "F">> THEN <<"F">>
            ELSE IF col = <<"O", "R", "E", "B">> \/ col = <<"D", "R", "E", "B">>
                 THEN SliceTo(col, 2)
            ELSE IF col[1] = "F" THEN col
            ELSE <<col[1]>>
    IN  rename \o <<"P", "G">>

-----------------------------------------------------------------------------
(* Table layouts of the two sources.                                       *)

\* CareerTotalsRegularSeason / CareerTotalsPostSeason of PlayerCareerStats
NBAColumns ==
    << <<"P","L","A","Y","E","R","_","I","D">>, <<"L","E","A","G","U","E","_","I","D">>,
       <<"T","e","a","m","_","I","D">>,
       <<"G","P">>, <<"G","S">>, <<"M","I","N">>,
       <<"F","G","M">>, <<"F","G","A">>, <<"F","G","_","P","C","T">>,
       <<"F","G","3","M">>, <<"F","G","3","A">>, <<"F","G","3","_","P","C","T">>,
       <<"F","T","M">>, <<"F","T","A">>, <<"F","T","_","P","C","T">>,
       <<"O","R","E","B">>, <<"D","R","E","B">>, <<"R","E","B">>,
       <<"A","S","T">>, <<"S","T","L">>, <<"B","L","K">>, <<"T","O","V">>,
       <<"P","F">>, <<"P","T","S">> >>

\* columns shared by the totals_stats and per_game_stats tables, up to PTS
BRStatColumns ==
    << <<"S","e","a","s","o","n">>, <<"A","g","e">>, <<"T","e","a","m">>,
       <<"L","g">>, <<"P","o","s">>,
       <<"G">>, <<"G","S">>, <<"M","P">>,
       <<"F","G">>, <<"F","G","A">>, FGpct,
       <<"3","P">>, <<"3","P","A">>, P3pct,
       <<"2","P">>, <<"2","P","A">>, P2pct, eFGpct,
       <<"F","T">>, <<"F","T","A">>, FTpct,
       <<"O","R","B">>, <<"D","R","B">>, <<"T","R","B">>,
       <<"A","S","T">>, <<"S","T","L">>, <<"B","L","K">>, <<"T","O","V">>,
       <<"P","F">>, <<"P","T","S">> >>

\* the totals table ends with a triple-double count and the awards text
BRTotalsColumns ==
    BRStatColumns \o << <<"T","r","p","-","D","b","l">>, <<"A","w","a","r","d","s">> >>

\* the per-game table ends with the awards text
BRPerGameColumns == BRStatColumns \o << <<"A","w","a","r","d","s">> >>

-----------------------------------------------------------------------------
(* Rows as the sources deliver them.                                       *)

\* Which percentage columns a scraped career row carries: a percentage is
\* missing when its attempt count is zero; without field-goal attempts the
\* three dependent percentages are missing too.
Shapes ==
    { sh \in [fg : BOOLEAN, p3 : BOOLEAN, p2 : BOOLEAN, ft : BOOLEAN] :
        /\ ~sh.fg => (~sh.p3 /\ ~sh.p2)
        /\ sh.fg => (sh.p3 \/ sh.p2) }

FullShape == [fg |-> TRUE, p3 |-> TRUE, p2 |-> TRUE, ft |-> TRUE]

Supplied(shape, col) ==
    /\ col = FGpct => shape.fg
    /\ col = eFGpct => shape.fg
    /\ col = P3pct => shape.p3
    /\ col = P2pct => shape.p2
    /\ col = FTpct => shape.ft

\* makes and attempts of a shot type that was never attempted are zero
ZeroCount(shape, col) ==
    \/ ~shape.fg /\ col \in {<<"F","G">>, <<"F","G","A">>}
    \/ ~shape.p3 /\ col \in {<<"3","P">>, <<"3","P","A">>}
    \/ ~shape.p2 /\ col \in {<<"2","P">>, <<"2","P","A">>}
    \/ ~shape.ft /\ col \in {<<"F","T">>, <<"F","T","A">>}

\* the cell of column number i of the full layout
SourceValue(shape, columns, i) ==
    IF ZeroCount(shape, columns[i]) THEN 0 ELSE ValueBase + i

\* the career row read from a Basketball Reference table
BRRow(columns, shape) ==
    LET all  == [i \in 1..Len(columns) |->
                    [key |-> columns[i], val |-> SourceValue(shape, columns, i)]]
        Has(e) == Supplied(shape, e.key)
    IN  SelectSeq(all, Has)

\* the single row of a career data frame of PlayerCareerStats
NBARow ==
    [i \in 1..Len(NBAColumns) |-> [key |-> NBAColumns[i], val |-> ValueBase + i]]

-----------------------------------------------------------------------------
(* The normaliser.                                                         *)

Zero(col) == << [key |-> col, val |-> 0] >>

\* insert_missing with the free-throw percentage put one slot too early
insert_missing_ft_early(stats) ==
    LET s1 == IF ~HasKey(stats, FGpct)
              THEN SliceTo(stats, 10) \o Zero(FGpct) \o Slice(stats, 10, 12)
                     \o Zero(P3pct) \o Slice(stats, 12, 14)
                     \o Zero(P2pct) \o Zero(eFGpct) \o SliceFrom(stats, 14)
              ELSE IF ~HasKey(stats, P3pct)
              THEN SliceTo(stats, 13) \o Zero(P3pct) \o SliceFrom(stats, 13)
              ELSE IF ~HasKey(stats, P2pct)
              THEN SliceTo(stats, 16) \o Zero(P2pct) \o SliceFrom(stats, 16)
              ELSE stats
    IN  IF ~HasKey(s1, FTpct)
        THEN SliceTo(s1, 19) \o Zero(FTpct) \o SliceFrom(s1, 19)
        ELSE s1

insert_missing(stats) ==
    LET s1 == IF ~HasKey(stats, FGpct)
              THEN SliceTo(stats, 10) \o Zero(FGpct) \o Slice(stats, 10, 12)
                     \o Zero(P3pct) \o Slice(stats, 12, 14)
                     \o Zero(P2pct) \o Zero(eFGpct) \o SliceFrom(stats, 14)
              ELSE IF ~HasKey(stats, P3pct)
              THEN SliceTo(stats, 13) \o Zero(P3pct) \o SliceFrom(stats, 13)
              ELSE IF ~HasKey(stats, P2pct)
              THEN SliceTo(stats, 16) \o Zero(P2pct) \o SliceFrom(stats, 16)
              ELSE stats
    IN  IF ~HasKey(s1, FTpct)
        THEN SliceTo(s1, 20) \o Zero(FTpct) \o SliceFrom(s1, 20)
        ELSE s1

clean_avgs(df) ==
    LET r == RenameKeys(df, rename_avgs)
    IN  Slice(r, 5, 8) \o Slice(r, 9, 11) \o Slice(r, 12, 14) \o SliceFrom(r, 15)

\* get_totals, primary path: the fragment returned for a player with seasons
get_totals_nba(has_pf) ==
    IF ~has_pf THEN SliceFrom(NBARow, 3)
    ELSE SliceFrom(NBARow, 3) \o AddPrefix(SliceFrom(NBARow, 3))

\* get_totals, secondary path: slices kept of a normalised career row
TotalsSlices(totals) == Slice(totals, 5, 14) \o Slice(totals, 18, -2)

\* get_totals, secondary path: the fragment returned
get_totals_br(totals_row, pf_row, has_pf) ==
    LET totals    == RenameKeys(insert_missing(totals_row), br_rename)
        pf_totals == AddPrefix(RenameKeys(insert_missing(pf_row), br_rename))
    IN  IF has_pf
        THEN Slice(totals, 5, 14) \o Slice(totals, 18, -2)
               \o Slice(pf_totals, 5, 14) \o Slice(pf_totals, 18, -2)
        ELSE TotalsSlices(totals)

\* get_avgs, primary path
get_avgs_nba(has_pf) ==
    IF ~has_pf THEN clean_avgs(NBARow)
    ELSE clean_avgs(NBARow) \o AddPrefix(clean_avgs(NBARow))

\* AvgsSlices with the tail of the totals slices (two trailing columns cut)
AvgsSlices_totals_tail(avgs) ==
    Slice(avgs, 7, 10) \o Slice(avgs, 11, 13) \o Slice(avgs, 18, 20) \o Slice(avgs, 21, -2)

\* get_avgs, secondary path: slices kept of a normalised career row
AvgsSlices(avgs) ==
    Slice(avgs, 7, 10) \o Slice(avgs, 11, 13) \o Slice(avgs, 18, 20) \o Slice(avgs, 21, -1)

\* get_avgs, secondary path
get_avgs_br(avgs_row, pf_row, has_pf) ==
    LET avgs    == RenameKeys(RenameKeys(insert_missing(avgs_row), br_rename), rename_avgs)
        pf_avgs == AddPrefix(RenameKeys(RenameKeys(insert_missing(pf_row), br_rename),
                                        rename_avgs))
    IN  IF has_pf
        THEN AvgsSlices(avgs) \o AvgsSlices(pf_avgs)
        ELSE AvgsSlices(avgs)

-----------------------------------------------------------------------------
(* The pipeline: roster, sources, files and the running process.           *)

\* largest number of players the roster provider returns
NumPlayers == 2
\* largest number of times the program is started
MaxRuns == 2

Ids == 1..NumPlayers
Names == {"Ann", "Bob"}
AwardOrder == <<"MVP">>

\* pandas' missing value (an empty CSV cell); a present stat fragment is 1
NaN == -1
Present == 1

\* first year of a player's final recorded season; NoSeasons: a valid
\* primary response with zero career seasons
NoSeasons == 0
LastStarts == {2020, 2024}
\* (year, month) of date.today()
Dates == {<<2025, 6>>, <<2025, 7>>}

\* one player as the roster provider and the two sources describe him:
\* nba is FALSE when nba.com has no record (the stats client raises KeyError)
Profiles ==
    { p \in [name : Names, active : BOOLEAN, nba : BOOLEAN,
             last : LastStarts \cup {NoSeasons}, awards : SUBSET {"MVP"}] :
        /\ p.last = NoSeasons => (p.nba /\ p.awards = {})
        /\ ~p.nba => p.awards = {} }

Stages == <<"inactive_totals", "inactive_avgs", "inactive_awards",
            "active_totals", "active_avgs", "active_awards">>

NoCsv == [exists |-> FALSE, cols |-> << >>, rows |-> << >>]
NoPkl == [exists |-> FALSE, names |-> {}]

VARIABLES
    roster,         \* id -> profile: players.get_inactive_players() / get_active_players()
    today,          \* date.today()
    pc,             \* "idle", a stage name, "done" or "halted"
    runs,           \* number of processes started so far
    season,         \* the module-level variable season of the running process
    inactive_ineligibles,  \* the module-level set of the running process
    never_in_nba,          \* the module-level set of the running process
    eligible_csv,   \* eligible_player_data.csv
    ineligible_csv, \* ineligible_player_data.csv
    ii_csv,         \* inactive_ineligibles.csv
    ii_pkl,         \* inactive_ineligibles.pkl
    nn_pkl,         \* never_in_nba.pkl
    log,            \* sleeps and external calls of the running process, in order
    completed,      \* history: the stages that ran to their end, as [run, stage], in order
    nIn,            \* normaliser check: the percentage columns the scraped rows carry
    nOut            \* normaliser check: fragments computed so far

files == <<eligible_csv, ineligible_csv, ii_csv, ii_pkl, nn_pkl>>
procVars == <<pc, runs, season, inactive_ineligibles, never_in_nba, log, completed>>
pipeVars == <<roster, today, procVars, files>>
normVars == <<nIn, nOut>>
vars == <<pipeVars, normVars>>

\* lines 62-65
ReferenceSeason(d) == IF d[2] > 6 THEN d[1] + 1 ELSE d[1]

\* ids of one cohort in roster order
RECURSIVE CohortFrom(_, _, _)
CohortFrom(r, act, i) ==
    IF i > NumPlayers THEN << >>
    ELSE (IF r[i].active = act THEN <<i>> ELSE << >>) \o CohortFrom(r, act, i + 1)

\* the data frame of one cohort as the roster provider returns it
RosterFrame(r, act) ==
    LET ids == CohortFrom(r, act, 1)
    IN  [exists |-> TRUE, cols |-> << >>,
         rows |-> [i \in 1..Len(ids) |->
                     [id |-> ids[i], name |-> r[ids[i]].name, cells |-> << >>]]]

-----------------------------------------------------------------------------
(* Classification and fetches of one player.                               *)

\* get_totals, secondary path, lines 224-236
MarkedSecondary(p, s) ==
    LET last_season == p.last + 1
    IN  s - last_season # 0 /\ s - last_season <= 4

\* get_totals, primary path, lines 287-293
MarkedPrimary(p, s) == p.active = FALSE /\ s - (p.last + 1) <= 4

\* does get_totals add the player's name to inactive_ineligibles
Marked(p, s) ==
    IF ~p.nba THEN MarkedSecondary(p, s)
    ELSE p.last # NoSeasons /\ MarkedPrimary(p, s)

\* does get_totals add the player's name to never_in_nba, lines 281-285
NeverPlayed(p) == p.nba /\ p.last = NoSeasons

\* the stat fragment get_totals / get_avgs return: an empty Series without seasons
Fragment(p) == IF p.nba /\ p.last = NoSeasons THEN NaN ELSE Present

\* one sleep or external call made for row number r of the stage's frame
Ev(stage, r, id, kind) ==
    [stage |-> stage, row |-> r, id |-> id, kind |-> kind, ok |-> TRUE]

\* sleeps and external calls of get_totals / get_avgs for one row
StatEvents(stage, r, id, p) ==
    <<Ev(stage, r, id, "sleep"), Ev(stage, r, id, "stats")>>
      \o (IF p.nba THEN << >>
          ELSE <<Ev(stage, r, id, "index"), Ev(stage, r, id, "page")>>)

\* sleeps and external calls of get_awards for one row
AwardEvents(stage, r, id) ==
    <<Ev(stage, r, id, "sleep"), Ev(stage, r, id, "awards")>>

IsAwardStage(stage) == stage \in {"inactive_awards", "active_awards"}

RowEvents(stage, r, id, p) ==
    IF IsAwardStage(stage) THEN AwardEvents(stage, r, id) ELSE StatEvents(stage, r, id, p)

-----------------------------------------------------------------------------
(* Data frames and CSV files.                                              *)

Col(name) == [name |-> name, n |-> 0]

\* pd.read_csv renames a repeated column label X to X.1, X.2, ...
Mangle(cols) ==
    [i \in 1..Len(cols) |->
        IF \E j \in 1..(i - 1) : cols[j] = cols[i]
        THEN [name |-> cols[i].name,
              n |-> Cardinality({j \in 1..(i - 1) : cols[j].name = cols[i].name})]
        ELSE cols[i]]

read_csv(file) == [file EXCEPT !.cols = Mangle(file.cols)]

DupLabels(cols) == \E i, j \in 1..Len(cols) : i # j /\ cols[i] = cols[j]

\* pd.concat([df, df.apply(f, axis=1)], axis=1): new columns are the labels some
\* row returned; a row that did not return a label holds NaN there.  On a frame
\* without rows apply returns a copy of the frame.
ConcatColumns(df, labels, Cell(_, _)) ==
    IF Len(df.rows) = 0
    THEN [df EXCEPT !.cols = df.cols \o df.cols]
    ELSE LET new == SelectSeq(labels,
                       LAMBDA l : \E i \in 1..Len(df.rows) : Cell(df.rows[i], l) # NaN)
         IN  [df EXCEPT
                !.cols = df.cols \o [k \in 1..Len(new) |-> Col(new[k])],
                !.rows = [i \in 1..Len(df.rows) |->
                            [df.rows[i] EXCEPT
                               !.cells = @ \o [k \in 1..Len(new) |-> Cell(df.rows[i], new[k])]]]]

\* DataFrame.fillna(0)
fillna(df) ==
    [df EXCEPT !.rows = [i \in 1..Len(df.rows) |->
        [df.rows[i] EXCEPT !.cells = [k \in 1..Len(@) |-> IF @[k] = NaN THEN 0 ELSE @[k]]]]]

\* df[df["full_name"].isin(names)] and its complement, by row position
IsIn(df, names) == {i \in 1..Len(df.rows) : df.rows[i].name \in names}

RECURSIVE KeepRows(_, _, _)
KeepRows(rows, keep, i) ==
    IF i > Len(rows) THEN << >>
    ELSE (IF i \in keep THEN <<rows[i]>> ELSE << >>) \o KeepRows(rows, keep, i + 1)

Select(df, keep) == [df EXCEPT !.rows = KeepRows(df.rows, keep, 1)]

\* the cell of a row under a label; NaN when the row's frame lacks the label
CellAt(cols, row, c) ==
    IF \E k \in 1..Len(cols) : cols[k] = c
    THEN row.cells[CHOOSE k \in 1..Len(cols) : cols[k] = c]
    ELSE NaN

\* pd.concat([a, b]) along the rows: the labels of a, then those only b has
ConcatRows(a, b) ==
    LET extra == SelectSeq(b.cols, LAMBDA c : ~\E k \in 1..Len(a.cols) : a.cols[k] = c)
        cols  == a.cols \o extra
        Lay(from, row) == [row EXCEPT !.cells = [k \in 1..Len(cols) |-> CellAt(from, row, cols[k])]]
    IN  [exists |-> TRUE, cols |-> cols,
         rows |-> [i \in 1..Len(a.rows) |-> Lay(a.cols, a.rows[i])]
                    \o [i \in 1..Len(b.rows) |-> Lay(b.cols, b.rows[i])]]

\* pd.concat along the rows raises InvalidIndexError when a frame with a
\* repeated label has to be reindexed
ConcatRowsRaises(a, b) == a.cols # b.cols /\ (DupLabels(a.cols) \/ DupLabels(b.cols))

-----------------------------------------------------------------------------
(* One stage: df.apply(get_..., axis=1) and what surrounds it.             *)

\* sleeps and calls of apply over the first r rows.  On a frame without rows
\* apply probes the function once with a row of missing values (row 0, id 0).
RECURSIVE EventsUpTo(_, _, _)
EventsUpTo(stage, rows, r) ==
    IF Len(rows) = 0
    THEN RowEvents(stage, 0, 0, [nba |-> TRUE])
    ELSE IF r = 0 THEN << >>
    ELSE EventsUpTo(stage, rows, r - 1)
           \o RowEvents(stage, r, rows[r].id, roster[rows[r].id])

StageEvents(stage, df) == EventsUpTo(stage, df.rows, Len(df.rows))

\* rows whose call to get_... returned before event number f was issued
RowsBefore(stage, df, f) ==
    {r \in 1..Len(df.rows) : Len(EventsUpTo(stage, df.rows, r)) < f}

\* names get_totals adds to the module-level sets while it handles these rows
MarkedNames(df, done) ==
    {df.rows[r].name : r \in {x \in done : Marked(roster[df.rows[x].id], season)}}
NeverNames(df, done) ==
    {df.rows[r].name : r \in {x \in done : NeverPlayed(roster[df.rows[x].id])}}

IsTotalsStage(stage) == stage \in {"inactive_totals", "active_totals"}

\* the module-level sets after apply handled the rows in done
SetsAfter(stage, df, done) ==
    IF IsTotalsStage(stage)
    THEN /\ inactive_ineligibles' = inactive_ineligibles \cup MarkedNames(df, done)
         /\ never_in_nba' = never_in_nba \cup NeverNames(df, done)
    ELSE UNCHANGED <<inactive_ineligibles, never_in_nba>>

\* the function called next by lines 567-572
NextStage(stage) ==
    LET k == CHOOSE i \in 1..Len(Stages) : Stages[i] = stage
    IN  IF k = Len(Stages) THEN "done" ELSE Stages[k + 1]

\* TimesOut with the exception swallowed: the stage is given up and the
\* program goes on with the next one
TimesOut_goes_on(stage, df) ==
    \E f \in 1..Len(StageEvents(stage, df)) :
        LET E == StageEvents(stage, df)
        IN  /\ E[f].kind # "sleep"
            /\ log' = log \o SubSeq(E, 1, f - 1) \o <<[E[f] EXCEPT !.ok = FALSE]>>
            /\ SetsAfter(stage, df, RowsBefore(stage, df, f))
            /\ pc' = NextStage(stage)
            /\ UNCHANGED <<roster, today, runs, season, completed, files, normVars>>

\* a timeout of external call number f: quit() in get_totals / get_avgs, an
\* uncaught exception elsewhere; nothing after it runs
TimesOut(stage, df) ==
    \E f \in 1..Len(StageEvents(stage, df)) :
        LET E == StageEvents(stage, df)
        IN  /\ E[f].kind # "sleep"
            /\ log' = log \o SubSeq(E, 1, f - 1) \o <<[E[f] EXCEPT !.ok = FALSE]>>
            /\ SetsAfter(stage, df, RowsBefore(stage, df, f))
            /\ pc' = "halted"
            /\ UNCHANGED <<roster, today, runs, season, completed, files, normVars>>

\* an uncaught exception before the first call (a checkpoint that is not there)
CrashesAtStart ==
    /\ pc' = "crashed"
    /\ UNCHANGED <<roster, today, runs, season, inactive_ineligibles, never_in_nba,
                   log, completed, files, normVars>>

\* an uncaught exception after apply returned
CrashesAfterApply(stage, df) ==
    /\ log' = log \o StageEvents(stage, df)
    /\ pc' = "crashed"
    /\ UNCHANGED <<roster, today, runs, season, inactive_ineligibles, never_in_nba,
                   completed, files, normVars>>

\* apply returned for every row
Returns(stage, df) ==
    /\ log' = log \o StageEvents(stage, df)
    /\ SetsAfter(stage, df, 1..Len(df.rows))
    /\ pc' = NextStage(stage)
    /\ completed' = Append(completed, [run |-> runs, stage |-> stage])
    /\ UNCHANGED <<roster, today, runs, season, normVars>>

StatCell(row, label) == Fragment(roster[row.id])
AwardCell(row, label) == IF label \in roster[row.id].awards THEN 1 ELSE NaN

WithTotals(df) == ConcatColumns(df, <<"T">>, StatCell)
WithAvgs(df) == ConcatColumns(df, <<"A">>, StatCell)
WithAwards(df) == fillna(ConcatColumns(df, AwardOrder, AwardCell))

to_csv(df) == [exists |-> TRUE, cols |-> df.cols, rows |-> df.rows]
dump(names) == [exists |-> TRUE, names |-> names]

-----------------------------------------------------------------------------
(* The program.                                                            *)

\* a process starts; the stages before number k are commented out (k = 1 is
\* the program as written)
Launch(k) ==
    /\ pc \in {"idle", "done", "halted", "crashed"}
    /\ runs < MaxRuns
    /\ runs' = runs + 1
    /\ pc' = Stages[k]
    /\ season' = ReferenceSeason(today)
    /\ inactive_ineligibles' = {}
    /\ never_in_nba' = {}
    /\ log' = << >>
    /\ UNCHANGED <<roster, today, completed, files, normVars>>

inactive_totals ==
    /\ pc = "inactive_totals"
    /\ LET df == RosterFrame(roster, FALSE)
       IN  \/ TimesOut("inactive_totals", df)
           \/ /\ Returns("inactive_totals", df)
              /\ eligible_csv' = to_csv(WithTotals(df))
              /\ ii_pkl' = dump(inactive_ineligibles')
              /\ nn_pkl' = dump(never_in_nba')
              /\ UNCHANGED <<ineligible_csv, ii_csv>>

inactive_avgs ==
    /\ pc = "inactive_avgs"
    /\ LET df == read_csv(eligible_csv)
       IN  \/ ~eligible_csv.exists /\ CrashesAtStart
           \/ eligible_csv.exists /\ TimesOut("inactive_avgs", df)
           \/ /\ eligible_csv.exists
              /\ Returns("inactive_avgs", df)
              /\ eligible_csv' = to_csv(WithAvgs(df))
              /\ UNCHANGED <<ineligible_csv, ii_csv, ii_pkl, nn_pkl>>

inactive_awards ==
    /\ pc = "inactive_awards"
    /\ LET df      == read_csv(eligible_csv)
           awarded == WithAwards(df)
           ii_rows == IsIn(awarded, ii_pkl.names)
           nn_rows == IsIn(awarded, nn_pkl.names)
       IN  \/ ~eligible_csv.exists /\ CrashesAtStart
           \/ eligible_csv.exists /\ TimesOut("inactive_awards", df)
           \/ /\ eligible_csv.exists
              /\ ~(ii_pkl.exists /\ nn_pkl.exists)
              /\ CrashesAfterApply("inactive_awards", df)
           \/ /\ eligible_csv.exists /\ ii_pkl.exists /\ nn_pkl.exists
              /\ Returns("inactive_awards", df)
              /\ ii_csv' = to_csv(Select(awarded, ii_rows))
              /\ eligible_csv' =
                    to_csv(Select(awarded, (1..Len(awarded.rows)) \ (ii_rows \cup nn_rows)))
              /\ UNCHANGED <<ineligible_csv, ii_pkl, nn_pkl>>

active_totals ==
    /\ pc = "active_totals"
    /\ LET df == RosterFrame(roster, TRUE)
       IN  \/ TimesOut("active_totals", df)
           \/ /\ Returns("active_totals", df)
              /\ ineligible_csv' = to_csv(WithTotals(df))
              /\ UNCHANGED <<eligible_csv, ii_csv, ii_pkl, nn_pkl>>

active_avgs ==
    /\ pc = "active_avgs"
    /\ LET df == read_csv(ineligible_csv)
       IN  \/ ~ineligible_csv.exists /\ CrashesAtStart
           \/ ineligible_csv.exists /\ TimesOut("active_avgs", df)
           \/ /\ ineligible_csv.exists
              /\ Returns("active_avgs", df)
              /\ ineligible_csv' = to_csv(WithAvgs(df))
              /\ UNCHANGED <<eligible_csv, ii_csv, ii_pkl, nn_pkl>>

active_awards ==
    /\ pc = "active_awards"
    /\ LET df      == read_csv(ineligible_csv)
           awarded == WithAwards(df)
           ii_df   == read_csv(ii_csv)
       IN  \/ ~ineligible_csv.exists /\ CrashesAtStart
           \/ ineligible_csv.exists /\ TimesOut("active_awards", df)
           \/ /\ ineligible_csv.exists
              /\ (~ii_csv.exists \/ ConcatRowsRaises(awarded, ii_df))
              /\ CrashesAfterApply("active_awards", df)
           \/ /\ ineligible_csv.exists /\ ii_csv.exists
              /\ ~ConcatRowsRaises(awarded, ii_df)
              /\ Returns("active_awards", df)
              /\ ineligible_csv' = to_csv(ConcatRows(awarded, ii_df))
              /\ UNCHANGED <<eligible_csv, ii_csv, ii_pkl, nn_pkl>>

NoFragments ==
    [done |-> {}, totals_nba |-> << >>, totals_br |-> << >>, totals_ins |-> << >>,
     avgs_nba |-> << >>, avgs_br |-> << >>, avgs_ins |-> << >>]

Init ==
    /\ roster \in [Ids -> Profiles]
    /\ \E i, j \in Ids : ~roster[i].active /\ roster[j].active
    /\ today \in Dates
    /\ pc = "idle"
    /\ runs = 0
    /\ season = ReferenceSeason(today)
    /\ inactive_ineligibles = {}
    /\ never_in_nba = {}
    /\ eligible_csv = NoCsv /\ ineligible_csv = NoCsv /\ ii_csv = NoCsv
    /\ ii_pkl = NoPkl /\ nn_pkl = NoPkl
    /\ log = << >>
    /\ completed = << >>
    /\ nIn = [reg |-> FullShape, pf |-> FullShape, has_pf |-> FALSE]
    /\ nOut = NoFragments

Next ==
    \/ \E k \in 1..Len(Stages) : Launch(k)
    \/ inactive_totals
    \/ inactive_avgs
    \/ inactive_awards
    \/ active_totals
    \/ active_avgs
    \/ active_awards

Spec == Init /\ [][Next]_vars

-----------------------------------------------------------------------------
(* The pipeline on rosters whose players differ only in cohort, in source  *)
(* path and in having seasons: the inputs that decide which calls a stage  *)
(* issues and which rows its frame holds.                                  *)

HaltProfiles ==
    { p \in Profiles : p.name = "Ann" /\ p.awards = {} /\ p.last \in {NoSeasons, 2020} }

InitHalt ==
    /\ Init
    /\ \A i \in Ids : roster[i] \in HaltProfiles
    /\ today = <<2025, 6>>

SpecHalt == InitHalt /\ [][Next]_vars

-----------------------------------------------------------------------------
(* The normaliser on its own: one player's career rows, with every         *)
(* combination of missing percentage columns, through both source paths.   *)

NormInputs ==
    { in \in [reg : Shapes, pf : Shapes, has_pf : BOOLEAN] :
        ~in.has_pf => in.pf = FullShape }

InitNorm ==
    /\ roster = [i \in Ids |-> [name |-> "Ann", active |-> FALSE, nba |-> FALSE,
                                last |-> 2020, awards |-> {}]]
    /\ today = <<2025, 6>>
    /\ pc = "idle"
    /\ runs = 0
    /\ season = ReferenceSeason(today)
    /\ inactive_ineligibles = {}
    /\ never_in_nba = {}
    /\ eligible_csv = NoCsv /\ ineligible_csv = NoCsv /\ ii_csv = NoCsv
    /\ ii_pkl = NoPkl /\ nn_pkl = NoPkl
    /\ log = << >>
    /\ completed = << >>
    /\ nIn \in NormInputs
    /\ nOut = NoFragments

TotalsFromNBA ==
    /\ "totals_nba" \notin nOut.done
    /\ nOut' = [nOut EXCEPT !.done = @ \cup {"totals_nba"},
                            !.totals_nba = get_totals_nba(nIn.has_pf)]
    /\ UNCHANGED <<pipeVars, nIn>>

TotalsFromBR ==
    /\ "totals_br" \notin nOut.done
    /\ nOut' = [nOut EXCEPT
                  !.done = @ \cup {"totals_br"},
                  !.totals_ins = insert_missing(BRRow(BRTotalsColumns, nIn.reg)),
                  !.totals_br = get_totals_br(BRRow(BRTotalsColumns, nIn.reg),
                                              BRRow(BRTotalsColumns, nIn.pf), nIn.has_pf)]
    /\ UNCHANGED <<pipeVars, nIn>>

AvgsFromNBA ==
    /\ "avgs_nba" \notin nOut.done
    /\ nOut' = [nOut EXCEPT !.done = @ \cup {"avgs_nba"},
                            !.avgs_nba = get_avgs_nba(nIn.has_pf)]
    /\ UNCHANGED <<pipeVars, nIn>>

AvgsFromBR ==
    /\ "avgs_br" \notin nOut.done
    /\ nOut' = [nOut EXCEPT
                  !.done = @ \cup {"avgs_br"},
                  !.avgs_ins = insert_missing(BRRow(BRPerGameColumns, nIn.reg)),
                  !.avgs_br = get_avgs_br(BRRow(BRPerGameColumns, nIn.reg),
                                          BRRow(BRPerGameColumns, nIn.pf), nIn.has_pf)]
    /\ UNCHANGED <<pipeVars, nIn>>

NextNorm == TotalsFromNBA \/ TotalsFromBR \/ AvgsFromNBA \/ AvgsFromBR

SpecNorm == InitNorm /\ [][NextNorm]_vars

-----------------------------------------------------------------------------
(* Claims about the normaliser, checked under SpecNorm.                    *)

\* C9: the fragment built from the secondary source has the same column labels
\* in the same order as the one built from the primary source, for totals and
\* for averages, with and without playoff tables.
C9_SameColumns ==
    /\ {"totals_nba", "totals_br"} \subseteq nOut.done
          => Keys(nOut.totals_br) = Keys(nOut.totals_nba)
    /\ {"avgs_nba", "avgs_br"} \subseteq nOut.done
          => Keys(nOut.avgs_br) = Keys(nOut.avgs_nba)

\* both paths have produced totals and averages for a playoff player whose
\* scraped rows miss percentage columns
C9_Witness ==
    /\ nOut.done = {"totals_nba", "totals_br", "avgs_nba", "avgs_br"}
    /\ nIn.has_pf /\ ~nIn.reg.fg /\ ~nIn.pf.ft
    /\ Len(nOut.totals_br) = 42 /\ Len(nOut.avgs_br) = 32

PctColumns == {FGpct, P3pct, P2pct, eFGpct}

\* insert_missing gave the row the full layout: every column at its ordinal
\* position, the synthesised ones 0.0, the supplied ones untouched
Completed(ins, columns, shape) ==
    /\ Keys(ins) = columns
    /\ \A i \in 1..Len(ins) :
          ins[i].val = IF Supplied(shape, columns[i])
                       THEN SourceValue(shape, columns, i) ELSE 0

\* C10 (amended): after insert_missing the scraped row of a player has all of
\* FG%, 3P%, 2P%, eFG% and FT% at their source positions, 0.0 where the source
\* left them out, for every combination of missing columns; of these the
\* returned totals fragment keeps FG_PCT, FG3_PCT and FT_PCT (0.0 when
\* synthesised) and drops 2P% and eFG%, and the averages fragment keeps none.
C10_Synthesised ==
    /\ "totals_br" \in nOut.done =>
          /\ Completed(nOut.totals_ins, BRTotalsColumns, nIn.reg)
          /\ \A c \in {FGpct, P3pct, FTpct} :
                /\ HasKey(nOut.totals_br, br_rename(c))
                /\ ~Supplied(nIn.reg, c) => ValueOf(nOut.totals_br, br_rename(c)) = 0
          /\ \A c \in {P2pct, eFGpct} : ~HasKey(nOut.totals_br, br_rename(c))
    /\ "avgs_br" \in nOut.done =>
          /\ Completed(nOut.avgs_ins, BRPerGameColumns, nIn.reg)
          /\ \A c \in PctColumns \cup {FTpct} :
                ~HasKey(nOut.avgs_br, rename_avgs(br_rename(c)))

\* a player without field-goal and free-throw attempts went through the
\* secondary path
C10_Witness ==
    /\ {"totals_br", "avgs_br"} \subseteq nOut.done
    /\ ~nIn.reg.fg /\ ~nIn.reg.ft
    /\ ValueOf(nOut.totals_ins, eFGpct) = 0
    /\ ValueOf(nOut.totals_br, br_rename(FTpct)) = 0

\* C10 as stated: for a player with zero field-goal attempts the normalised
\* fragment holds FG%, 3P%, 2P% and eFG%, each 0.0
C10_AsStated ==
    ("totals_br" \in nOut.done /\ ~nIn.reg.fg) =>
        \A c \in PctColumns :
            /\ HasKey(nOut.totals_br, br_rename(c))
            /\ ValueOf(nOut.totals_br, br_rename(c)) = 0

-----------------------------------------------------------------------------
(* Claims about the pipeline, checked under Spec (C8 under SpecHalt).      *)

StageSet == {Stages[k] : k \in 1..Len(Stages)}

\* stages the running process / earlier processes ran to their end
Finished == {completed[i].stage : i \in {j \in 1..Len(completed) : completed[j].run = runs}}
FinishedBefore ==
    {completed[i].stage : i \in {j \in 1..Len(completed) : completed[j].run < runs}}
FinishedBy(run) ==
    {completed[i].stage : i \in {j \in 1..Len(completed) : completed[j].run = run}}

\* every stage has run to its end exactly once, in the order of lines 567-572
RanOnceInOrder == [i \in 1..Len(completed) |-> completed[i].stage] = Stages

RowIds(csv) == {csv.rows[i].id : i \in 1..Len(csv.rows)}
NoRepeatedRow(csv) ==
    \A i, j \in 1..Len(csv.rows) : i # j => csv.rows[i].id # csv.rows[j].id

NeverQualified == {i \in Ids : NeverPlayed(roster[i])}

\* the retirement gap of the eligibility rule
Gap(p, s) == s - (p.last + 1)

UniqueName(i) == \A j \in Ids \ {i} : roster[j].name # roster[i].name

\* C1 as stated: after the six stages ran once in order, the two final datasets
\* together hold exactly the roster minus the never-qualified players, no
\* player twice.
C1_AsStated ==
    (pc = "done" /\ RanOnceInOrder) =>
        /\ RowIds(eligible_csv) \cup RowIds(ineligible_csv) = Ids \ NeverQualified
        /\ RowIds(eligible_csv) \cap RowIds(ineligible_csv) = {}
        /\ NoRepeatedRow(eligible_csv)
        /\ NoRepeatedRow(ineligible_csv)

\* C2 as stated: a never-qualified player, inactive or active, is in neither
\* final dataset, also when the stages ran in separate processes.
C2_AsStated ==
    (pc = "done" /\ RanOnceInOrder) =>
        \A i \in NeverQualified :
            i \notin RowIds(eligible_csv) \cup RowIds(ineligible_csv)

\* C3 as stated: once get_totals has handled the inactive cohort, an inactive
\* player with a recorded season (whose name no other player carries) is in
\* the recent-retiree set if and only if his gap is <= 4, on either source path.
C3_AsStated ==
    "inactive_totals" \in Finished =>
        \A i \in Ids :
            (~roster[i].active /\ roster[i].last # NoSeasons /\ UniqueName(i)) =>
                (roster[i].name \in inactive_ineligibles <=> Gap(roster[i], season) <= 4)

\* C4 as stated: every member of the recent-retiree set is (the name of) an
\* inactive player.
C4_AsStated ==
    \A n \in inactive_ineligibles :
        \E i \in Ids : roster[i].name = n /\ ~roster[i].active

\* C5 as stated: a stage that already ran to its end is refused when entered
\* again: it issues no call and leaves every persisted file as it is.
C5_AsStated ==
    [][(pc \in StageSet /\ pc \in Finished \cup FinishedBefore)
          => (files' = files /\ log' = log)]_vars

\* C6 as stated: when the previous process was interrupted, the running one
\* issues no external call of a stage the earlier processes had completed.
C6_AsStated ==
    (runs >= 2 /\ "active_awards" \notin FinishedBy(runs - 1)) =>
        \A e \in 1..Len(log) :
            log[e].kind # "sleep" => log[e].stage \notin FinishedBefore

\* C7 as stated: an awards stage that runs to its end a second time, nothing
\* else having completed in between, leaves the cohort's final dataset (one
\* that holds players) as the first run wrote it.
C7_AsStated ==
    [][(/\ IsAwardStage(pc)
        /\ Len(completed) > 0
        /\ completed[Len(completed)].stage = pc
        /\ Len(completed') > Len(completed)
        /\ Len(eligible_csv.rows) > 0)
          => /\ pc = "inactive_awards" => eligible_csv' = eligible_csv
             /\ pc = "active_awards" => ineligible_csv' = ineligible_csv]_vars

AwardsSeen == UNION {roster[i].awards : i \in Ids}

\* every row of the dataset holds the player's count under the award's column
HasCount(csv, a) ==
    \A r \in 1..Len(csv.rows) :
        CellAt(csv.cols, csv.rows[r], Col(a))
            = (IF a \in roster[csv.rows[r].id].awards THEN 1 ELSE 0)

\* C11 as stated: after the six stages ran once in order, every row of both
\* final datasets holds a count (0 when never won) under every award name seen
\* for any player of the run; no row lacks the column or holds an empty value.
C11_AsStated ==
    (pc = "done" /\ RanOnceInOrder) =>
        \A a \in AwardsSeen : HasCount(eligible_csv, a) /\ HasCount(ineligible_csv, a)

\* C12 as stated: every external call of the running process is immediately
\* preceded by the fixed pause, the index-page and player-page loads of the
\* secondary source included.
C12_AsStated ==
    \A e \in 1..Len(log) :
        log[e].kind # "sleep" => (e > 1 /\ log[e - 1].kind = "sleep")

\* C13 as stated: a stage other than the first issues a call or writes a file
\* only if the stage before it has run to its end (its checkpoint was written),
\* and stages complete only in the order of lines 567-572.
C13_AsStated ==
    [][\A k \in 2..Len(Stages) :
          (pc = Stages[k] /\ (log' # log \/ files' # files \/ completed' # completed))
              => Stages[k - 1] \in Finished \cup FinishedBefore]_vars

====
